---- MODULE Spec2Model ----
(***************************************************************************)
(* A state-machine model of the DDPG agent of src/src/agent.py.            *)
(*                                                                         *)
(* Numbers.  The tensors of the agent are floating-point numbers; the      *)
(* model keeps them in fixed point.  States, actions and rewards of a      *)
(* transition are whole numbers.  Parameters, network outputs, targets,    *)
(* gradients and the first moment of Adam are kept in units of 1 / Scale,  *)
(* the second moment of Adam in units of 1 / SqScale; every division       *)
(* rounds to the nearest unit.  tau is the rational tau_num / tau_den, and *)
(* a mean that is only reported (a loss) is kept as the record [num, den]. *)
(*                                                                         *)
(* Networks.  src/network.py is not part of the sources at hand.  A        *)
(* network is modelled as the function approximator of the design          *)
(* document with one scalar parameter theta: forward(theta, x) is theta    *)
(* times the sum of the input vector, one output per input row (the test   *)
(* driver builds both networks with one output unit, so a batch of B rows  *)
(* gives an output of shape (B, 1)).                                       *)
(*                                                                         *)
(* Optimizer.  optim.Adam is built with a learning rate only, so it runs   *)
(* with the defaults of torch: betas (0.9, 0.999), eps 1e-8, no weight     *)
(* decay.  Its state is the step count and the two moments exp_avg and     *)
(* exp_avg_sq.  eps is below the resolution of the fixed point: it only    *)
(* decides the step of a parameter whose gradients were all zero (none).   *)
(* The learning rates are scaled up to one parameter unit.                 *)
(***************************************************************************)
EXTENDS Integers, Sequences, FiniteSets, TLC

VARIABLES
    net,      \* network object id -> its parameter value
    grad,     \* network object id -> .grad of its parameter: <<>> (None) or <<g>>
    opt,      \* "actor" / "critic" -> state of that optimizer
    buffer,   \* contents of the replay buffer, oldest first
    stored,   \* every transition stored since the buffer was created or cleared
    disk,     \* artifact suffix -> <<>> (no such file) or <<content>>
    pc,       \* 0: no update() in progress; k: statement UpdateBody[k] is next
    frame,    \* locals of the update() call in progress
    trace,    \* statements of UpdateBody executed by the current/last update()
    ret,      \* the last call: its name, how it ended, and the value returned
    updates   \* update() calls that got past the early return, so far

vars == <<net, grad, opt, buffer, stored, disk, pc, frame, trace, ret, updates>>

----------------------------------------------------------------------------
(* Bounds of the model *)

\* Capacity of the replay buffer (the agent asks for 10000; scaled down).
Capacity == 2
\* Number of store calls followed between two clears of the buffer.
MaxStores == 3
\* Number of update() calls past the early return followed in one behaviour.
MaxUpdates == 2
\* Largest magnitude of a sampled exploration noise.
MaxNoise == 3

----------------------------------------------------------------------------
(* Constructor arguments and constants of the agent *)

tau_num == 5
tau_den == 100
gamma == 1
batch_size == 2
actor_lr == 1
critic_lr == 1

\* Fixed point: one unit of a parameter, an output or a gradient is 1 / Scale;
\* one unit of a second moment is 1 / SqScale.
Scale == 1000
SqScale == 100000000

\* Defaults of optim.Adam: betas = (0.9, 0.999), as rationals.
beta1_num == 9
beta1_den == 10
beta2_num == 999
beta2_den == 1000
clip_lo == -2
clip_hi == 2

\* The network objects handed to the constructor, and the copies it makes.
actor == 1
critic == 2

deepcopy_alias(n) == n

deepcopy(n) == n + 2

actor_target == deepcopy(actor)
critic_target == deepcopy(critic)

NetIds == 1..4

\* Parameter values of the networks handed to the constructor.
InitActorVals == {1}
InitCriticVals == {2}

None == <<>>

Suffixes == {"_critic", "_critic_hyp_params", "_actor", "_actor_hyp_params"}

\* Transitions the driver hands to store(): a non-terminal and a terminal one.
TransitionInputs ==
    { [state |-> 1, action |-> 1, reward |-> 0, next_state |-> 1, done |-> FALSE],
      [state |-> 1, action |-> 0, reward |-> 1, next_state |-> 0, done |-> TRUE] }

StateInputs == {0, 1}

SigmaInputs == {0, 1}

----------------------------------------------------------------------------
(* Arithmetic helpers *)

\* a whole number in fixed point
Fix(x) == x * Scale

\* a / b rounded to the nearest integer (b > 0)
RoundDiv(a, b) == (2 * a + b) \div (2 * b)

\* a * b / c rounded, for a >= 0, without forming a * b
MulDiv(a, b, c) == (a \div c) * b + RoundDiv((a % c) * b, c)

RECURSIVE Pow(_, _)
Pow(x, n) == IF n = 0 THEN 1 ELSE x * Pow(x, n - 1)

\* the largest r in lo..hi with r * r <= n
RECURSIVE SqrtFloor(_, _, _)
SqrtFloor(n, lo, hi) ==
    IF lo = hi THEN lo
    ELSE LET mid == (lo + hi + 1) \div 2 IN
         IF mid * mid <= n THEN SqrtFloor(n, mid, hi)
         ELSE SqrtFloor(n, lo, mid - 1)

\* the square root of n >= 0, rounded to the nearest integer
Sqrt(n) ==
    LET r == SqrtFloor(n, 0, 46340) IN
    IF n - r * r > r THEN r + 1 ELSE r

RECURSIVE SumTo(_, _)
SumTo(f, n) == IF n = 0 THEN 0 ELSE f[n] + SumTo(f, n - 1)

\* torch.clip(x, lo, hi)
clip(x, lo, hi) == IF x < lo THEN lo ELSE IF x > hi THEN hi ELSE x

\* forward pass of a one-parameter network on one input row whose elements
\* sum to x
forward(theta, x) == RoundDiv(theta * x, Scale)

Call(op, outcome, value) == [op |-> op, outcome |-> outcome, value |-> value]

\* The step is a call of op: it starts with no update() in progress and
\* leaves op as the last call.
Called(op) == pc = 0 /\ ret'.op = op

\* A call can start: no update() is in progress, and no call has raised.  No
\* code of the agent catches an exception, so an exception ends the program
\* that drives the agent; only a new agent can be constructed after it.
Ready == pc = 0 /\ ret.outcome = "return"

----------------------------------------------------------------------------
(* The replay buffer.  src/buffer.py is not part of the sources at hand:    *)
(* ExpReplay is modelled from the design document (a fixed-capacity ring    *)
(* with FIFO eviction, uniform sampling, a length query and clear).         *)

ExpReplay_store(buf, t, cap) ==
    IF Len(buf) < cap THEN Append(buf, t) ELSE Append(Tail(buf), t)

ExpReplay_len(buf) == Len(buf)

ExpReplay_clear(buf) == <<>>

\* The batches sample(n) can return: n independent uniform draws.  With
\* fewer than n transitions stored there is none (the call fails).
ExpReplay_sample(buf, n) ==
    IF Len(buf) < n THEN {}
    ELSE { [i \in 1..n |-> buf[idx[i]]] : idx \in [1..n -> 1..Len(buf)] }

----------------------------------------------------------------------------
(* Construction *)

fresh_net(pa, pcr) ==
    [n \in NetIds |-> IF n \in {actor, actor_target} THEN Fix(pa) ELSE Fix(pcr)]

fresh_grad == [n \in NetIds |-> None]

\* optim.Adam(...): no step taken, no moment recorded
Adam(lr) == [step |-> 0, lr |-> Fix(lr), exp_avg |-> 0, exp_avg_sq |-> 0]

fresh_opt == [o \in {"actor", "critic"} |->
                 IF o = "actor" THEN Adam(actor_lr) ELSE Adam(critic_lr)]

no_frame == [batch |-> <<>>, y |-> <<>>, advantage |-> <<>>,
             critic_loss |-> <<>>, actor_loss |-> <<>>, actor_graph |-> <<>>]

Init ==
    /\ \E pa \in InitActorVals, pcr \in InitCriticVals : net = fresh_net(pa, pcr)
    /\ grad = fresh_grad
    /\ opt = fresh_opt
    /\ buffer = <<>>
    /\ stored = <<>>
    /\ disk = [s \in Suffixes |-> None]
    /\ pc = 0
    /\ frame = no_frame
    /\ trace = <<>>
    /\ ret = Call("__init__", "return", None)
    /\ updates = 0

\* A new agent is constructed around new networks; the files stay.
DDPG_init ==
    /\ pc = 0
    /\ \E pa \in InitActorVals, pcr \in InitCriticVals : net' = fresh_net(pa, pcr)
    /\ grad' = fresh_grad
    /\ opt' = fresh_opt
    /\ buffer' = <<>>
    /\ stored' = <<>>
    /\ frame' = no_frame
    /\ trace' = <<>>
    /\ ret' = Call("__init__", "return", None)
    /\ UNCHANGED <<disk, pc, updates>>

----------------------------------------------------------------------------
(* reset, store, act *)

reset ==
    /\ Ready
    /\ buffer' = ExpReplay_clear(buffer)
    /\ stored' = <<>>
    /\ ret' = Call("reset", "return", None)
    /\ UNCHANGED <<net, grad, opt, disk, pc, frame, trace, updates>>

forward_store_unbounded(buf, t) == Append(buf, t)

\* self.buffer.store(*args), on the buffer the constructor made
forward_store(buf, t) == ExpReplay_store(buf, t, Capacity)

store ==
    /\ Ready
    /\ Len(stored) < MaxStores
    /\ \E t \in TransitionInputs :
          /\ buffer' = forward_store(buffer, t)
          /\ stored' = Append(stored, t)
    /\ ret' = Call("store", "return", None)
    /\ UNCHANGED <<net, grad, opt, disk, pc, frame, trace, updates>>

\* Normal(loc, scale) validates its arguments when it is built (the default
\* of torch.distributions): the scale must be positive, or it raises
\* ValueError.
Normal_valid(sigma) == sigma > 0

\* Values Normal(0, sigma).sample() can take: none, and the largest followed.
Normal_sample(sigma) == { Fix(0 - MaxNoise), 0, Fix(MaxNoise) }

act ==
    /\ Ready
    /\ \E state \in StateInputs, sigma \in SigmaInputs :
          LET action == forward(net[actor], Fix(state)) IN
          IF ~Normal_valid(sigma)
          THEN ret' = Call("act", "ValueError", None)
          ELSE \E noise \in Normal_sample(sigma) :
                  ret' = Call("act", "return",
                              <<clip(action + noise, Fix(clip_lo), Fix(clip_hi))>>)
    /\ UNCHANGED <<net, grad, opt, buffer, stored, disk, pc, frame, trace, updates>>

----------------------------------------------------------------------------
(* update(): the tensors of lines 116-132 *)

\* .long() of a boolean
Long(b) == IF b THEN 1 ELSE 0

\* network(torch.hstack((s, a))) for one row
critic_forward(theta, s, a) == forward(theta, s + a)

B == batch_size

\* critic_target(hstack(next_states, actor_target(next_states))): shape (B, 1)
q_next(batch, nt) ==
    [i \in 1..B |->
        critic_forward(nt[critic_target], Fix(batch[i].next_state),
                       forward(nt[actor_target], Fix(batch[i].next_state)))]

\* y = rewards + gamma * (1 - dones) * critic_target(...).  rewards and dones
\* have shape (B,), the network output has shape (B, 1): broadcasting gives
\* shape (B, B), row i from the network output, column j from rewards/dones.
target_y(batch, nt) ==
    [i \in 1..B |-> [j \in 1..B |->
        Fix(batch[j].reward)
            + gamma * (1 - Long(batch[j].done)) * q_next(batch, nt)[i]]]

\* advantage = critic(hstack(states, actions)) - y.detach(): (B, 1) - (B, B)
advantage_of(batch, nt, y) ==
    [i \in 1..B |-> [j \in 1..B |->
        critic_forward(nt[critic], Fix(batch[i].state), Fix(batch[i].action))
            - y[i][j]]]

\* sum of the squares of a (B, B) tensor
SumSq(m) ==
    SumTo([i \in 1..B |-> SumTo([j \in 1..B |-> m[i][j] * m[i][j]], B)], B)

\* advantage.pow(2).mean(): the mean over all B * B elements
critic_loss_of(adv) == [num |-> SumSq(adv), den |-> B * B]

\* d critic_loss / d theta_critic
critic_loss_grad(fr) ==
    RoundDiv(2 * SumTo([i \in 1..B |->
                 SumTo([j \in 1..B |->
                     fr.advantage[i][j]
                         * (fr.batch[i].state + fr.batch[i].action)], B)], B),
             B * B)

\* -critic(hstack(states, actor(states))).mean(): the mean over B elements
actor_loss_of(batch, nt) ==
    [num |-> 0 - SumTo([i \in 1..B |->
                 critic_forward(nt[critic], Fix(batch[i].state),
                                forward(nt[actor], Fix(batch[i].state)))], B),
     den |-> B]

\* d actor_loss / d theta_actor, at the parameters the graph holds
actor_loss_grad_actor(fr) ==
    RoundDiv(0 - SumTo([i \in 1..B |->
                 fr.actor_graph[1].critic * fr.batch[i].state], B), B)

\* d actor_loss / d theta_critic, at the parameters the graph holds
actor_loss_grad_critic(fr) ==
    RoundDiv(0 - SumTo([i \in 1..B |->
                 Fix(fr.batch[i].state)
                     + fr.actor_graph[1].actor * fr.batch[i].state], B), B)

----------------------------------------------------------------------------
(* update(): gradients and optimizers *)

\* the parameters each optimizer was built on
opt_params(o) == IF o = "actor" THEN {actor} ELSE {critic}

zero_grad_skipped(g, ids) == g

\* optimizer.zero_grad(): clears .grad of the optimizer's own parameters
zero_grad(g, ids) == [n \in NetIds |-> IF n \in ids THEN None ELSE g[n]]

\* backward() adds to .grad
accumulate(g, n, d) ==
    [g EXCEPT ![n] = IF g[n] = None THEN <<d>> ELSE <<g[n][1] + d>>]

\* exp_avg.lerp_(grad, 1 - beta1)
Adam_exp_avg(m, g) == RoundDiv(beta1_num * m + (beta1_den - beta1_num) * g, beta1_den)

\* exp_avg_sq.mul_(beta2).addcmul_(grad, grad, value = 1 - beta2)
Adam_exp_avg_sq(v, g) ==
    v - RoundDiv((beta2_den - beta2_num) * v, beta2_den)
      + RoundDiv(g * g, (beta2_den * (Scale * Scale))
                            \div ((beta2_den - beta2_num) * SqScale))

\* exp_avg / bias_correction1, with bias_correction1 = 1 - beta1^t
Adam_exp_avg_hat(m, t) ==
    RoundDiv(m * Pow(beta1_den, t), Pow(beta1_den, t) - Pow(beta1_num, t))

\* beta2^t, in millionths
RECURSIVE beta2_pow(_)
beta2_pow(t) ==
    IF t = 0 THEN 1000000 ELSE RoundDiv(beta2_pow(t - 1) * beta2_num, beta2_den)

\* exp_avg_sq / bias_correction2, with bias_correction2 = 1 - beta2^t, in
\* units of 1 / Scale^2
Adam_exp_avg_sq_hat(v, t) ==
    MulDiv(v, 1000000 \div (SqScale \div (Scale * Scale)), 1000000 - beta2_pow(t))

\* optimizer.step(): the state of one parameter; a parameter without .grad is
\* skipped
Adam_step_state(o, g) ==
    IF g = None THEN o
    ELSE [o EXCEPT !.step = o.step + 1,
                   !.exp_avg = Adam_exp_avg(o.exp_avg, g[1]),
                   !.exp_avg_sq = Adam_exp_avg_sq(o.exp_avg_sq, g[1])]

\* optimizer.step(): param.addcdiv_(exp_avg, denom, value = -lr / bias_correction1)
\* with denom = sqrt(exp_avg_sq / bias_correction2) + eps
Adam_step_param(theta, o, g) ==
    IF g = None THEN theta
    ELSE LET n == Adam_step_state(o, g)
             denom == Sqrt(Adam_exp_avg_sq_hat(n.exp_avg_sq, n.step))
         IN  IF denom = 0 THEN theta
             ELSE theta - RoundDiv(n.lr * Adam_exp_avg_hat(n.exp_avg, n.step), denom)

insufficient_off_by_one == ExpReplay_len(buffer) < batch_size - 1

\* if self.buffer.len() < self.batch_size
insufficient == ExpReplay_len(buffer) < batch_size

UpdateBody_actor_loss_first ==
    << "actor_loss", "critic_optimizer.zero_grad", "critic_loss.backward",
       "critic_optimizer.step", "actor_optimizer.zero_grad",
       "actor_loss.backward", "actor_optimizer.step" >>

\* the statements of update() after the critic loss, in program order
UpdateBody ==
    << "critic_optimizer.zero_grad", "critic_loss.backward",
       "critic_optimizer.step", "actor_loss", "actor_optimizer.zero_grad",
       "actor_loss.backward", "actor_optimizer.step" >>

\* an update is followed only while the bounds of the model allow it
WithinBounds == updates < MaxUpdates

\* update(), lines 113-132: the early return, or the batch and the critic loss
update ==
    /\ Ready
    /\ IF insufficient
       THEN /\ ret' = Call("update", "return", None)
            /\ UNCHANGED <<net, grad, opt, buffer, stored, disk, pc, frame, trace,
                           updates>>
       ELSE IF ExpReplay_sample(buffer, batch_size) = {}
       THEN /\ ret' = Call("update", "ValueError", None)
            /\ UNCHANGED <<net, grad, opt, buffer, stored, disk, pc, frame, trace,
                           updates>>
       ELSE /\ WithinBounds
            /\ \E batch \in ExpReplay_sample(buffer, batch_size) :
                  LET y == target_y(batch, net)
                      adv == advantage_of(batch, net, y) IN
                  frame' = [batch |-> batch, y |-> y, advantage |-> adv,
                            critic_loss |-> <<critic_loss_of(adv)>>,
                            actor_loss |-> <<>>, actor_graph |-> <<>>]
            /\ pc' = 1
            /\ trace' = <<>>
            /\ ret' = Call("update", "running", None)
            /\ updates' = updates + 1
            /\ UNCHANGED <<net, grad, opt, buffer, stored, disk>>

\* what every statement of UpdateBody does to the position in update()
Advance(name) ==
    /\ pc \in 1..Len(UpdateBody)
    /\ UpdateBody[pc] = name
    /\ trace' = Append(trace, name)
    /\ pc' = IF pc = Len(UpdateBody) THEN 0 ELSE pc + 1
    /\ ret' = IF pc = Len(UpdateBody) THEN Call("update", "return", None) ELSE ret

\* the locals of update() are gone once it has returned
Locals(fr) == IF pc = Len(UpdateBody) THEN no_frame ELSE fr

critic_zero_grad ==
    /\ Advance("critic_optimizer.zero_grad")
    /\ grad' = zero_grad(grad, opt_params("critic"))
    /\ frame' = Locals(frame)
    /\ UNCHANGED <<net, opt, buffer, stored, disk, updates>>

critic_backward ==
    /\ Advance("critic_loss.backward")
    /\ grad' = accumulate(grad, critic, critic_loss_grad(frame))
    /\ frame' = Locals(frame)
    /\ UNCHANGED <<net, opt, buffer, stored, disk, updates>>

critic_step ==
    /\ Advance("critic_optimizer.step")
    /\ net' = [net EXCEPT ![critic] =
                  Adam_step_param(net[critic], opt["critic"], grad[critic])]
    /\ opt' = [opt EXCEPT !["critic"] = Adam_step_state(opt["critic"], grad[critic])]
    /\ frame' = Locals(frame)
    /\ UNCHANGED <<grad, buffer, stored, disk, updates>>

actor_loss ==
    /\ Advance("actor_loss")
    /\ frame' = Locals([frame EXCEPT
                    !.actor_loss = <<actor_loss_of(frame.batch, net)>>,
                    !.actor_graph = <<[critic |-> net[critic], actor |-> net[actor]]>>])
    /\ UNCHANGED <<net, grad, opt, buffer, stored, disk, updates>>

actor_zero_grad ==
    /\ Advance("actor_optimizer.zero_grad")
    /\ grad' = zero_grad(grad, opt_params("actor"))
    /\ frame' = Locals(frame)
    /\ UNCHANGED <<net, opt, buffer, stored, disk, updates>>

\* the graph of the actor loss reaches the actor's and the critic's parameters
actor_backward ==
    /\ Advance("actor_loss.backward")
    /\ grad' = accumulate(accumulate(grad, actor, actor_loss_grad_actor(frame)),
                          critic, actor_loss_grad_critic(frame))
    /\ frame' = Locals(frame)
    /\ UNCHANGED <<net, opt, buffer, stored, disk, updates>>

actor_step ==
    /\ Advance("actor_optimizer.step")
    /\ net' = [net EXCEPT ![actor] =
                  Adam_step_param(net[actor], opt["actor"], grad[actor])]
    /\ opt' = [opt EXCEPT !["actor"] = Adam_step_state(opt["actor"], grad[actor])]
    /\ frame' = Locals(frame)
    /\ UNCHANGED <<grad, buffer, stored, disk, updates>>

----------------------------------------------------------------------------
(* polyak_update *)

\* trg_param * (1.0 - tau) + src_param * tau, times tau_den
blend(trg, src) == trg * (tau_den - tau_num) + src * tau_num

\* The loop variable trg_param is rebound to the blended tensor; nothing is
\* assigned to the target network's parameter.
polyak_update ==
    /\ Ready
    /\ LET trg_param_critic == blend(net[critic_target], net[critic])
           trg_param_actor == blend(net[actor_target], net[actor])
       IN  net' = net
    /\ ret' = Call("polyak_update", "return", None)
    /\ UNCHANGED <<grad, opt, buffer, stored, disk, pc, frame, trace, updates>>

----------------------------------------------------------------------------
(* save, load *)

\* what save writes under each suffix
state_dict(suffix, nt, op) ==
    CASE suffix = "_critic" -> nt[critic]
      [] suffix = "_critic_hyp_params" -> op["critic"]
      [] suffix = "_actor" -> nt[actor]
      [] suffix = "_actor_hyp_params" -> op["actor"]

save ==
    /\ Ready
    /\ disk' = [s \in Suffixes |-> <<state_dict(s, net, opt)>>]
    /\ ret' = Call("save", "return", None)
    /\ UNCHANGED <<net, grad, opt, buffer, stored, pc, frame, trace, updates>>

load_state_dict_swapped(st, suffix, content) ==
    CASE suffix = "_critic" -> [st EXCEPT !.net[actor] = content]
      [] suffix = "_critic_hyp_params" -> [st EXCEPT !.opt["critic"] = content]
      [] suffix = "_actor" -> [st EXCEPT !.net[critic] = content]
      [] suffix = "_actor_hyp_params" -> [st EXCEPT !.opt["actor"] = content]

\* X.load_state_dict(torch.load(filename + suffix)) for the X of each suffix
load_state_dict(st, suffix, content) ==
    CASE suffix = "_critic" -> [st EXCEPT !.net[critic] = content]
      [] suffix = "_critic_hyp_params" -> [st EXCEPT !.opt["critic"] = content]
      [] suffix = "_actor" -> [st EXCEPT !.net[actor] = content]
      [] suffix = "_actor_hyp_params" -> [st EXCEPT !.opt["actor"] = content]

\* the order in which load reads the artifacts
LoadOrder == << "_critic", "_critic_hyp_params", "_actor", "_actor_hyp_params" >>

\* load from its k-th statement on: stops at the first missing file
RECURSIVE load_from(_, _, _)
load_from(k, st, dsk) ==
    IF k > Len(LoadOrder) THEN [st |-> st, outcome |-> "return"]
    ELSE IF dsk[LoadOrder[k]] = None
    THEN [st |-> st, outcome |-> "FileNotFoundError"]
    ELSE load_from(k + 1, load_state_dict(st, LoadOrder[k], dsk[LoadOrder[k]][1]), dsk)

\* The files torch.load finds: those save wrote, less the ones removed since
\* (nothing removed, or one file of the checkpoint).
MissingInputs == {{}} \cup {{s} : s \in Suffixes}

files(dsk, missing) == [s \in Suffixes |-> IF s \in missing THEN None ELSE dsk[s]]

load ==
    /\ Ready
    /\ \E missing \in MissingInputs :
          LET r == load_from(1, [net |-> net, opt |-> opt], files(disk, missing)) IN
          /\ net' = r.st.net
          /\ opt' = r.st.opt
          /\ ret' = Call("load", r.outcome, None)
    /\ UNCHANGED <<grad, buffer, stored, disk, pc, frame, trace, updates>>

----------------------------------------------------------------------------
(* The agent *)

Next ==
    \/ DDPG_init
    \/ reset
    \/ store
    \/ act
    \/ update
    \/ critic_zero_grad
    \/ critic_backward
    \/ critic_step
    \/ actor_loss
    \/ actor_zero_grad
    \/ actor_backward
    \/ actor_step
    \/ polyak_update
    \/ save
    \/ load

Spec == Init /\ [][Next]_vars

----------------------------------------------------------------------------
(* Properties *)

TargetsChanged ==
    \/ net'[actor_target] # net[actor_target]
    \/ net'[critic_target] # net[critic_target]

\* C1: after polyak_update every stored target parameter equals
\* tau * online + (1 - tau) * old target (here times tau_den), so it differs
\* from its old value whenever the online parameter differs from the target.
C1_PolyakWritesBack ==
    [][Called("polyak_update") =>
         /\ tau_den * net'[critic_target] = blend(net[critic_target], net[critic])
         /\ tau_den * net'[actor_target] = blend(net[actor_target], net[actor])
         /\ (net[critic] # net[critic_target]
                => net'[critic_target] # net[critic_target])
         /\ (net[actor] # net[actor_target]
                => net'[actor_target] # net[actor_target])]_vars

\* C2: update() on a buffer shorter than batch_size returns without error and
\* without sampling, and leaves the networks, the targets, the gradients, the
\* optimizers and the buffer as they were.
C2_UpdateNoop ==
    [][(Called("update") /\ ExpReplay_len(buffer) < batch_size) =>
         /\ ret' = Call("update", "return", None)
         /\ pc' = 0
         /\ frame' = frame
         /\ UNCHANGED <<net, grad, opt, buffer, disk>>]_vars

C2_Witness ==
    /\ ret = Call("update", "return", None)
    /\ ExpReplay_len(buffer) > 0
    /\ ExpReplay_len(buffer) < batch_size

\* C3: a load that fails on a missing artifact leaves actor parameters, critic
\* parameters and both optimizer states at their values before the call.
C3_LoadAtomic ==
    [][(Called("load") /\ ret'.outcome = "FileNotFoundError") =>
         /\ net'[actor] = net[actor]
         /\ net'[critic] = net[critic]
         /\ opt' = opt]_vars

\* C4: right after construction the targets hold the values of the online
\* networks, and afterwards no call but polyak_update changes a target
\* parameter: not update, load, save, act, store or reset.
C4_TargetsOnlyPolyak ==
    /\ [](ret.op = "__init__" =>
             /\ net[actor_target] = net[actor]
             /\ net[critic_target] = net[critic])
    /\ [][TargetsChanged => (Called("polyak_update") \/ Called("__init__"))]_vars

C4_Witness ==
    /\ ret = Call("update", "return", None)
    /\ Len(trace) = Len(UpdateBody)
    /\ \/ net[actor] # net[actor_target]
       \/ net[critic] # net[critic_target]

\* C5: act returns an action for every sigma >= 0, every element of it lies
\* in [-2, 2], and act changes no network, target, optimizer or buffer state.
C5_ActReturnsInBounds ==
    [][Called("act") =>
         /\ ret'.outcome = "return"
         /\ ret'.value # None
         /\ ret'.value[1] >= Fix(clip_lo)
         /\ ret'.value[1] <= Fix(clip_hi)
         /\ UNCHANGED <<net, grad, opt, buffer>>]_vars

\* the last n elements of a sequence
LastN(seq, n) == SubSeq(seq, Len(seq) - n + 1, Len(seq))

Min(a, b) == IF a < b THEN a ELSE b

\* C6: after k store calls and no clear the buffer holds exactly the most
\* recent min(k, Capacity) transitions in insertion order; its length never
\* exceeds Capacity.
C6_RingBuffer ==
    /\ ExpReplay_len(buffer) <= Capacity
    /\ buffer = LastN(stored, Min(Len(stored), Capacity))

C6_Witness ==
    /\ Len(stored) = Capacity + 1
    /\ ExpReplay_len(buffer) = Capacity
    /\ \A i \in 1..Len(buffer) : buffer[i] # stored[1]
    /\ \A i \in 1..Capacity : buffer[i] = stored[i + 1]

\* C7: save writes the four artifacts, each from its own component; a load
\* that succeeds restores each component from its own artifact; nothing else
\* writes the artifacts.  So an agent that loads holds the actor parameters,
\* critic parameters and optimizer states the saving agent had at the save.
C7_RoundTrip ==
    /\ [][Called("save") =>
            /\ disk'["_actor"] = <<net[actor]>>
            /\ disk'["_critic"] = <<net[critic]>>
            /\ disk'["_actor_hyp_params"] = <<opt["actor"]>>
            /\ disk'["_critic_hyp_params"] = <<opt["critic"]>>]_vars
    /\ [][(Called("load") /\ ret'.outcome = "return") =>
            /\ <<net'[actor]>> = disk["_actor"]
            /\ <<net'[critic]>> = disk["_critic"]
            /\ <<opt'["actor"]>> = disk["_actor_hyp_params"]
            /\ <<opt'["critic"]>> = disk["_critic_hyp_params"]]_vars
    /\ [][disk' # disk => Called("save")]_vars

\* a never-updated agent holds a trained state: it has loaded it
C7_Witness ==
    /\ ret = Call("load", "return", None)
    /\ grad = fresh_grad
    /\ opt["actor"].step > 0
    /\ opt["critic"].step > 0
    /\ net[actor] # net[critic]

\* the target of transition i alone
y_own(batch, nt, i) ==
    Fix(batch[i].reward)
        + gamma * (1 - Long(batch[i].done)) * q_next(batch, nt)[i]

\* the sum over the batch of (critic(state_i, action_i) - y_i)^2
own_sq_sum(batch, nt) ==
    SumTo([i \in 1..B |->
        (critic_forward(nt[critic], Fix(batch[i].state), Fix(batch[i].action))
            - y_own(batch, nt, i))
        * (critic_forward(nt[critic], Fix(batch[i].state), Fix(batch[i].action))
            - y_own(batch, nt, i))], B)

\* C8: the target paired with the prediction of transition i is built from
\* transition i's own reward, done flag and next state only, and the critic
\* loss is the mean over the batch of (critic(state_i, action_i) - y_i)^2.
C8_PerTransitionTarget ==
    (pc = 1) =>
        /\ \A i \in 1..B : \A j \in 1..B :
               frame.y[i][j] = y_own(frame.batch, net, i)
        /\ frame.critic_loss[1].num * B
               = own_sq_sum(frame.batch, net) * frame.critic_loss[1].den

IsPrefix(s, t) == Len(s) <= Len(t) /\ s = SubSeq(t, 1, Len(s))

C9_Order ==
    << "critic_optimizer.zero_grad", "critic_loss.backward",
       "critic_optimizer.step", "actor_loss", "actor_optimizer.zero_grad",
       "actor_loss.backward", "actor_optimizer.step" >>

\* C9: an update() that does not return early runs, in this order and once
\* each: critic zero_grad, critic backward, critic step, actor loss, actor
\* zero_grad, actor backward, actor step; the actor loss is the one computed
\* with the critic parameters as the critic step left them.
C9_CriticThenActor ==
    /\ IsPrefix(trace, C9_Order)
    /\ (pc # 0 => Len(trace) = pc - 1)
    /\ (ret = Call("update", "return", None) /\ trace # <<>> => trace = C9_Order)
    /\ (pc # 0 /\ frame.actor_loss # <<>> =>
           /\ Len(trace) >= 4
           /\ frame.actor_graph[1].critic = net[critic]
           /\ frame.actor_loss[1] = actor_loss_of(frame.batch, net))

C9_Witness ==
    /\ pc = 5
    /\ opt["critic"].step = 1
    /\ net[critic] # net[critic_target]
    /\ frame.actor_loss[1] = actor_loss_of(frame.batch, net)

\* C10: during update() the critic parameters change only in the critic
\* optimizer step, and the gradient that step applies (to the parameter and
\* to the moments of the critic optimizer) is the gradient of this call's
\* critic loss alone; what the actor-loss backward pass left on the critic's
\* .grad is cleared before the next critic backward pass.
C10_ActorLossSparesCritic ==
    /\ [](pc # 0 /\ UpdateBody[pc] = "critic_loss.backward" => grad[critic] = None)
    /\ [](pc # 0 /\ UpdateBody[pc] = "critic_optimizer.step" =>
             grad[critic] = <<critic_loss_grad(frame)>>)
    /\ [][(pc # 0 /\ (net'[critic] # net[critic] \/ opt'["critic"] # opt["critic"])) =>
             /\ UpdateBody[pc] = "critic_optimizer.step"
             /\ net'[critic] = Adam_step_param(net[critic], opt["critic"],
                                               <<critic_loss_grad(frame)>>)
             /\ opt'["critic"] = Adam_step_state(opt["critic"],
                                                 <<critic_loss_grad(frame)>>)]_vars

\* a later update() has cleared the critic's gradient; the actor's gradient of
\* the update before is still there
C10_Witness ==
    /\ pc = 2
    /\ opt["critic"].step >= 1
    /\ grad[critic] = None
    /\ grad[actor] # None

====
